---- MODULE Spec2Model ----
(***************************************************************************)
(* A model of src/agent.js: the execution engine executeCode, the          *)
(* capability registry (the `context` object it builds per call) and the   *)
(* module-level lookups the registry's capabilities delegate to.           *)
(*                                                                         *)
(* Code text is a sequence of lexical units: the characters the            *)
(* normalisation looks at (backtick, newline, space, the word              *)
(* "javascript") and whole JavaScript statements.  A JavaScript value is a *)
(* record [t, s, n] (type, string payload, numeric payload).  Times are in *)
(* units of 1000 ms, since the millisecond values of the 30d and 1y        *)
(* windows do not fit the model checker's 32-bit integers.                 *)
(***************************************************************************)
EXTENDS Integers, Sequences, FiniteSets, TLC

(***************************************************************************)
(* Bounds of the model.                                                    *)
(***************************************************************************)
\* Date.now() when the first call is made (units of 1000 ms).
StartTime == 1700000000
\* How many times the clock advances during a run.
MaxTicks == 1

\* The two concurrent executeCode invocations.
Invocations == {1, 2}

(***************************************************************************)
(* JavaScript values.                                                      *)
(***************************************************************************)
JV(t, s, n) == [t |-> t, s |-> s, n |-> n]
Undefined == JV("undefined", "", 0)
Null == JV("null", "", 0)
NaN == JV("number", "NaN", 0)
Num(n) == JV("number", "", n)
Str(s) == JV("string", s, 0)
\* `$${x.toFixed(2)}` and `${x.toFixed(2)}%`: the payload n is x in hundredths.
Usd(c) == JV("string", "$", c)
Pct(c) == JV("string", "%", c)
\* An object or array the model does not look into, named by s; n is its length.
Obj(s, n) == JV("object", s, n)

\* An error value: what `throw` raises.  name "null" is `throw null`.
Err(name, message) == [name |-> name, message |-> message]
NoError == Err("", "")

(***************************************************************************)
(* Lexical units of code text.                                             *)
(***************************************************************************)
Unit(op, cap, tok, win) == [op |-> op, cap |-> cap, tok |-> tok, win |-> win]
Ch(c) == Unit(c, "", "", "")
\* One backtick character (U+0060).
Backtick == Ch("backtick")
NL == Ch("newline")
SP == Ch("space")
TagJavascript == Ch("javascript")
IsWhitespace(u) == u = NL \/ u = SP

\* Statements, named by their JavaScript source.
Return2 == Ch("return 1+1;")
ThrowBoom == Ch("throw new Error('boom');")
ThrowNull == Ch("throw null;")
Malformed == Ch("return (;")
PushCoin == Ch("coins.push({name:'xade',symbol:'xd'});")
ReturnCoinsLength == Ch("return coins.length;")
SetTimePeriod == Ch("TIME_PERIODS['1d'] = 0;")
ReturnTimePeriod == Ch("return TIME_PERIODS['1d'];")
PushAddress == Ch("portfolioAddresses.push('0xabc');")
ReturnAddressesLength == Ch("return portfolioAddresses.length;")
\* `return <id>;`
ReturnId(id) == Unit("return id;", id, "", "")
\* `return getTokenName('<tok>');`
ReturnTokenName(tok) == Unit("return getTokenName(tok);", "", tok, "")
\* `return await <cap>(<tok>, <win>);` and `await <cap>(<tok>, <win>);`
ReturnAwait(cap, tok, win) == Unit("return await", cap, tok, win)
Await(cap, tok, win) == Unit("await", cap, tok, win)

(***************************************************************************)
(* Normalizing: executeCode, lines 635-638.                                *)
(***************************************************************************)
\* Does the fence regex (three backticks, then "javascript" when withTag)
\* match s at position k?
FenceAt(s, k, withTag) ==
    /\ k + 2 <= Len(s)
    /\ s[k] = Backtick /\ s[k + 1] = Backtick /\ s[k + 2] = Backtick
    /\ withTag => (k + 3 <= Len(s) /\ s[k + 3] = TagJavascript)

\* String.prototype.replace with a regex that has no g flag: the leftmost
\* match of the fence, with its optional trailing newline, is removed once.
ReplaceFirstFence(s, withTag) ==
    IF \E k \in 1..Len(s) : FenceAt(s, k, withTag)
    THEN LET k == CHOOSE j \in 1..Len(s) :
                    /\ FenceAt(s, j, withTag)
                    /\ \A h \in 1..(j - 1) : ~FenceAt(s, h, withTag)
             m == IF withTag THEN 4 ELSE 3
             n == IF k + m <= Len(s) /\ s[k + m] = NL THEN m + 1 ELSE m
         IN  SubSeq(s, 1, k - 1) \o SubSeq(s, k + n, Len(s))
    ELSE s

\* String.prototype.trim
Trim(s) ==
    IF \A k \in 1..Len(s) : IsWhitespace(s[k])
    THEN << >>
    ELSE LET a == CHOOSE j \in 1..Len(s) :
                    ~IsWhitespace(s[j]) /\ \A h \in 1..(j - 1) : IsWhitespace(s[h])
             b == CHOOSE j \in 1..Len(s) :
                    ~IsWhitespace(s[j]) /\ \A h \in (j + 1)..Len(s) : IsWhitespace(s[h])
         IN  SubSeq(s, a, b)

\* cleanCode
CleanCode(code) == Trim(ReplaceFirstFence(ReplaceFirstFence(code, TRUE), FALSE))

(***************************************************************************)
(* Compiling: new AsyncFunction(...Object.keys(context), body),            *)
(* lines 936-949.  The body compiles to the sequence of its statements.    *)
(* A backtick opens a template literal that runs to the next backtick; a   *)
(* template literal that is never closed, and a malformed statement, are   *)
(* SyntaxErrors.  A closed template literal is an expression statement     *)
(* without effect.                                                         *)
(***************************************************************************)
RECURSIVE Scan(_, _, _, _)
Scan(s, k, inTemplate, acc) ==
    IF k > Len(s)
    THEN IF inTemplate
         THEN [ok |-> FALSE, prog |-> << >>,
               err |-> Err("SyntaxError", "Unterminated template literal")]
         ELSE [ok |-> TRUE, prog |-> acc, err |-> NoError]
    ELSE IF s[k] = Backtick THEN Scan(s, k + 1, ~inTemplate, acc)
    ELSE IF inTemplate \/ IsWhitespace(s[k]) THEN Scan(s, k + 1, inTemplate, acc)
    ELSE IF s[k] = Malformed
         THEN [ok |-> FALSE, prog |-> << >>,
               err |-> Err("SyntaxError", "Unexpected token ';'")]
    ELSE Scan(s, k + 1, inTemplate, Append(acc, s[k]))

AsyncFunction(cleanCode) == Scan(cleanCode, 1, FALSE, << >>)

(***************************************************************************)
(* Tokens, windows and the token tables.                                   *)
(***************************************************************************)
\* String.prototype.toLowerCase on the strings the model uses.
ToLowerCase(x) ==
    CASE x = "BTC" -> "btc"
      [] x = "Bitcoin" -> "bitcoin"
      [] x = "Doge" -> "doge"
      [] x = "XD" -> "xd"
      [] OTHER -> x

Coin(name, symbol) == [name |-> name, symbol |-> symbol]

\* context.coins as built at lines 643-653.
DefaultCoins ==
    << Coin("bitcoin", "btc"), Coin("ethereum", "eth"), Coin("aptos", "apt"),
       Coin("binance coin", "bnb"), Coin("cardano", "ada"), Coin("solana", "sol"),
       Coin("ripple", "xrp"), Coin("polkadot", "dot") >>

\* coins.json, the module-level token table (line 3); the file is not part
\* of the sources, its content is taken to be the default table.
ModuleCoins == DefaultCoins

\* Array.prototype.find over a token table, then the fallback of line 662.
FindTokenName(table, input) ==
    LET lowercaseInput == ToLowerCase(input)
        hit(k) == \/ ToLowerCase(table[k].name) = lowercaseInput
                  \/ ToLowerCase(table[k].symbol) = lowercaseInput
    IN  IF \E k \in 1..Len(table) : hit(k)
        THEN LET k == CHOOSE j \in 1..Len(table) :
                        hit(j) /\ \A h \in 1..(j - 1) : ~hit(h)
             IN  ToLowerCase(table[k].name)
        ELSE lowercaseInput

\* context.getTokenName, lines 655-663: resolves against context.coins.
getTokenName(coins, input) == FindTokenName(coins, input)

\* The module-level getTokenName, lines 108-116: resolves against coins.json.
ModuleGetTokenName(input) == FindTokenName(ModuleCoins, input)

\* TIME_PERIODS, lines 213-218 and 872-877, in units of 1000 ms.
WindowNames == {"1d", "7d", "30d", "1y"}
TIME_PERIODS ==
    [w \in WindowNames |->
        CASE w = "1d" -> 24 * 60 * 60
          [] w = "7d" -> 7 * 24 * 60 * 60
          [] w = "30d" -> 30 * 24 * 60 * 60
          [] w = "1y" -> 365 * 24 * 60 * 60]

\* now - TIME_PERIODS[period]: a number minus undefined is NaN.
FromOf(now, period) ==
    IF period \in DOMAIN TIME_PERIODS THEN Num(now - TIME_PERIODS[period]) ELSE NaN

(***************************************************************************)
(* The registry: Object.keys(context), lines 641-933, in order.            *)
(***************************************************************************)
RegistryKeys ==
    << "coins", "getTokenName", "price", "volume", "marketCap",
       "marketCapDiluted", "liquidity", "priceChange24h", "priceChange1h",
       "priceChange7d", "getPriceHistory", "getHistoricPortfolioData",
       "getWalletPortfolio", "website", "twitter", "telegram", "discord",
       "description", "usePerplexity", "cexs", "investors", "distribution",
       "releaseSchedule", "console", "priceChange30d", "priceHistoryData",
       "liquidityChange24h", "offChainVolume", "volume7d", "volumeChange24h",
       "priceChange1m", "priceChange1y", "ath", "atl", "rank", "totalSupply",
       "circulatingSupply", "isListed", "TIME_PERIODS", "portfolioAddresses",
       "getSocialData", "getListByCategory", "getTopicNews" >>

RegistryNames == {RegistryKeys[k] : k \in 1..Len(RegistryKeys)}

\* The capabilities by what they do with the market snapshot they fetch.
UsdCaps == {"price", "volume", "marketCap", "marketCapDiluted", "liquidity",
            "offChainVolume", "volume7d", "ath", "atl"}
PctCaps == {"priceChange24h", "priceChange1h", "priceChange7d", "priceChange30d",
            "liquidityChange24h", "volumeChange24h", "priceChange1m",
            "priceChange1y"}
RawCaps == {"rank", "totalSupply", "circulatingSupply"}
MarketCaps == UsdCaps \cup PctCaps \cup RawCaps \cup {"isListed"}
\* website .. description of the registry, lines 729-748.
LinkCaps == {"website", "twitter", "telegram", "discord", "description"}
\* Registry entries that call the module-level function of the same name,
\* lines 754-765.
DelegatedCaps == {"cexs", "investors", "distribution", "releaseSchedule"}
HistoryCaps == {"getPriceHistory", "priceHistoryData", "getHistoricPortfolioData"}
TokenCaps == MarketCaps \cup LinkCaps \cup DelegatedCaps
                \cup {"getPriceHistory", "priceHistoryData", "getSocialData"}
AsyncCaps == TokenCaps \cup {"getHistoricPortfolioData", "getWalletPortfolio",
                             "usePerplexity", "getListByCategory", "getTopicNews"}

(***************************************************************************)
(* External lookups.  A request is what axios is asked for; a response is  *)
(* what comes back: a transport error or non-success status ("error"), a   *)
(* success whose payload has no data ("nodata"), or a success ("ok") whose *)
(* payload may have (has) the field the capability reads, with value val   *)
(* in thousandths.                                                         *)
(***************************************************************************)
Request(api, target, from, to) ==
    [api |-> api, target |-> target, from |-> from, to |-> to]
NoRequest == Request("", Undefined, Undefined, Undefined)

Response(status, has, val) == [status |-> status, has |-> has, val |-> val]

\* What a synchronous part of a capability ends with: a raised error or a
\* request handed to axios.
Issued(req) == [raise |-> FALSE, err |-> NoError, req |-> req]
RaisedEarly(err) == [raise |-> TRUE, err |-> err, req |-> NoRequest]

\* What a capability ends with once its lookup has settled.
Value(val) == [raise |-> FALSE, err |-> NoError, val |-> val]
Raised(err) == [raise |-> TRUE, err |-> err, val |-> Undefined]

\* axios rejects on a transport error or a non-2xx status.
AxiosError == Err("AxiosError", "Request failed with status code 500")

\* A parameter with the default value null (lines 17).
DefaultNull(v) == IF v = Undefined THEN Null ELSE v

\* fetchPriceHistory(coinname, from = null, to = null), lines 17-33.
fetchPriceHistory(coinname, from, to) ==
    Issued(Request("market/history", coinname, DefaultNull(from), DefaultNull(to)))

\* fetchMarketData(coinname), lines 51-61.
fetchMarketData(coinname) ==
    Issued(Request("market/data", coinname, Undefined, Undefined))

\* fetchMetadata(coinname), lines 63-73.
fetchMetadata(coinname) ==
    Issued(Request("metadata", coinname, Undefined, Undefined))

\* fetchHistoricPortfolioData(from, to, addresses), lines 75-90:
\* addresses.join(",") raises when addresses is undefined.
fetchHistoricPortfolioData(from, to, addresses) ==
    IF addresses.t # "object"
    THEN RaisedEarly(Err("TypeError",
                         "Cannot read properties of undefined (reading 'join')"))
    ELSE Issued(Request("wallet/history", addresses, from, to))

\* fetchWalletPortfolio(address), lines 92-105.
fetchWalletPortfolio(address) ==
    Issued(Request("wallet/multi-portfolio", address, Undefined, Undefined))

\* The synchronous part of each capability of the registry, up to its
\* axios call: tok and win are the arguments of the call, coins is
\* context.coins, addresses is the portfolioAddresses array, now is Date.now().
StartCall(cap, tok, win, coins, addresses, now) ==
    CASE cap \in MarketCaps ->
            \* lines 666-715, 774-869
            fetchMarketData(Str(getTokenName(coins, tok)))
      [] cap = "getPriceHistory" ->
            \* lines 718-720
            fetchPriceHistory(Str(tok), Str(win), Undefined)
      [] cap = "getHistoricPortfolioData" ->
            \* lines 721-723
            fetchHistoricPortfolioData(Obj("portfolioAddresses", Len(addresses)),
                                       Str(win), Undefined)
      [] cap = "getWalletPortfolio" ->
            \* lines 724-726
            fetchWalletPortfolio(Str(tok))
      [] cap \in LinkCaps ->
            \* lines 729-748
            fetchMetadata(Str(tok))
      [] cap = "usePerplexity" ->
            \* lines 751-753, 182-197
            Issued(Request("perplexity", Str(tok), Undefined, Undefined))
      [] cap \in DelegatedCaps ->
            \* lines 754-765, 381-476
            fetchMetadata(Str(ModuleGetTokenName(tok)))
      [] cap = "priceHistoryData" ->
            \* lines 782-787
            fetchPriceHistory(Str(getTokenName(coins, tok)), FromOf(now, win), Num(now))
      [] cap = "getSocialData" ->
            \* lines 883, 509-519
            Issued(Request("lunarcrush/topic", Str(ModuleGetTokenName(tok)),
                           Undefined, Undefined))
      [] cap = "getListByCategory" ->
            \* lines 886-890, 552-570
            Issued(Request("lunarcrush/coins/list", Str("social_dominance"),
                           Undefined, Undefined))
      [] cap = "getTopicNews" ->
            \* lines 893-902
            Issued(Request("lunarcrush/topic/news", Str(tok), Undefined, Undefined))

\* Number.prototype.toFixed(2) of a value given in thousandths, in hundredths.
ToFixed2(v) == IF v >= 0 THEN (v + 5) \div 10 ELSE -((-v + 5) \div 10)

\* The test `data?.field !== undefined` of the module-level price (line 255).
Truthy_Defined(resp) == resp.status = "ok" /\ resp.has

\* data?.field as a condition: the field is there and is not zero.
Truthy(resp) == resp.status = "ok" /\ resp.has /\ resp.val # 0

NA == Str("N/A")

\* The strings of lines 386, 407, 438 and 455.
NoInformation(cap) ==
    CASE cap = "cexs" -> "No CEX listing information available"
      [] cap = "investors" -> "No investor information available"
      [] cap = "distribution" -> "No distribution information available"
      [] cap = "releaseSchedule" -> "No release schedule information available"

\* The rest of each capability, once its lookup has settled with resp.
FinishCall(cap, resp) ==
    CASE cap \in UsdCaps ->
            IF resp.status = "error" THEN Raised(AxiosError)
            ELSE IF Truthy(resp) THEN Value(Usd(ToFixed2(resp.val))) ELSE Value(NA)
      [] cap \in PctCaps ->
            IF resp.status = "error" THEN Raised(AxiosError)
            ELSE IF Truthy(resp) THEN Value(Pct(ToFixed2(resp.val))) ELSE Value(NA)
      [] cap \in RawCaps ->
            IF resp.status = "error" THEN Raised(AxiosError)
            ELSE IF Truthy(resp) THEN Value(Num(resp.val)) ELSE Value(NA)
      [] cap = "isListed" ->
            IF resp.status = "error" THEN Raised(AxiosError)
            ELSE IF resp.status = "ok" THEN Value(Str("Listed"))
            ELSE Value(Str("Not Listed"))
      [] cap \in {"getPriceHistory", "priceHistoryData"} ->
            \* response.data?.data?.price_history, line 32
            IF resp.status = "error" THEN Raised(AxiosError)
            ELSE IF resp.status = "ok" /\ resp.has THEN Value(Obj("price_history", 1))
            ELSE Value(Undefined)
      [] cap = "getHistoricPortfolioData" ->
            \* response.data, line 89
            IF resp.status = "error" THEN Raised(AxiosError)
            ELSE Value(Obj("wallet_history", 1))
      [] cap = "getWalletPortfolio" ->
            \* response.data?.data[0], line 104
            IF resp.status = "error" THEN Raised(AxiosError)
            ELSE IF resp.status = "nodata"
            THEN Raised(Err("TypeError",
                            "Cannot read properties of undefined (reading '0')"))
            ELSE IF resp.has THEN Value(Obj("portfolio", 1)) ELSE Value(Undefined)
      [] cap \in LinkCaps ->
            \* metadata?.website || "N/A"
            IF resp.status = "error" THEN Raised(AxiosError)
            ELSE IF resp.status = "ok" /\ resp.has THEN Value(Str("https://link"))
            ELSE Value(NA)
      [] cap = "usePerplexity" ->
            \* lines 182-203: every error is caught and turned into a string
            IF resp.status = "ok" /\ resp.has THEN Value(Str("answer"))
            ELSE Value(Str("Unable to fetch data from Perplexity API"))
      [] cap \in DelegatedCaps ->
            \* lines 381-476
            IF resp.status = "error" THEN Raised(AxiosError)
            ELSE IF resp.status = "ok" /\ resp.has THEN Value(Obj(cap, 1))
            ELSE Value(Str(NoInformation(cap)))
      [] cap = "getSocialData" ->
            \* lines 521-548
            IF resp.status = "error" THEN Value(Str("Failed to fetch social data"))
            ELSE IF resp.status = "ok" THEN Value(Obj("social", 1))
            ELSE Value(Str("No social data available"))
      [] cap = "getListByCategory" ->
            \* lines 572-631
            IF resp.status = "error"
            THEN Raised(Err("Error", "Failed to fetch coin list: " \o AxiosError.message))
            ELSE IF resp.status = "nodata"
            THEN Raised(Err("Error", "Failed to fetch coin list: "
                                      \o "No data received from LunarCrush API"))
            ELSE Value(Obj("coin_list", 1))
      [] cap = "getTopicNews" ->
            \* lines 904-931
            IF resp.status = "error" THEN Value(Str("Failed to fetch news data"))
            ELSE IF resp.status = "ok" THEN Value(Obj("news", 1))
            ELSE Value(Str("No news data available"))

(***************************************************************************)
(* Objects.  The heap maps an object's identity to its content; a registry *)
(* entry that is an object holds the identity.                             *)
(***************************************************************************)
\* A context whose coins entry is one array shared by every call.
CoinsOf_Shared(i) == <<"coins", 0>>

\* context.coins: an array literal, built anew by every call (lines 643-653).
CoinsOf(i) == <<"coins", i>>
\* context.TIME_PERIODS: an object literal, built anew by every call
\* (lines 872-877).
TimePeriodsOf(i) == <<"TIME_PERIODS", i>>
\* context.portfolioAddresses: the module-level array of line 11 (line 880).
AddressesOf(i) == <<"portfolioAddresses", 0>>

\* The heap once agent.js is loaded: line 11.
ModuleHeap == <<"portfolioAddresses", 0>> :> <<"0x0000000000000000000000000000000000000000">>

\* const context = {...}, lines 641-933: the objects the literal creates.
NewContext(i, h) ==
    (CoinsOf(i) :> DefaultCoins) @@ (TimePeriodsOf(i) :> TIME_PERIODS) @@ h

(***************************************************************************)
(* Identifier resolution in the compiled callable.  A function made by the *)
(* Function constructor closes over the global scope only: its parameters  *)
(* (the registry's keys) and the host's globals are in scope, the bindings *)
(* of the module agent.js are not.                                         *)
(***************************************************************************)
\* const/require bindings of agent.js (lines 1-14, 17-632) and the module
\* wrapper's own parameters.
ModuleBindings == {"axios", "openai", "LUNARCRUSH_API_KEY", "API_KEYS",
                   "fetchMarketData", "executeCode", "require", "module"}
\* Bindings of the host's global object.
HostGlobals == {"process", "globalThis", "fetch"}
\* Names bound nowhere.
UnboundNames == {"foo"}
Identifiers == RegistryNames \cup ModuleBindings \cup HostGlobals \cup UnboundNames

Resolve(id) ==
    IF id \in RegistryNames THEN Value(Obj(id, 0))
    ELSE IF id \in HostGlobals THEN Value(Obj("global:" \o id, 0))
    ELSE Raised(Err("ReferenceError", id \o " is not defined"))

(***************************************************************************)
(* Running: the callable runs synchronously up to its next await.          *)
(***************************************************************************)
IsAwait(stmt) == stmt.op \in {"await", "return await"}

\* Where a synchronous stretch of the callable stops.
Stop(how, ip, h, val, err, req) ==
    [how |-> how, ip |-> ip, h |-> h, val |-> val, err |-> err, req |-> req]

\* One statement that is not an await, in invocation i, on heap h.
ExecSync(stmt, i, ip, h) ==
    CASE stmt = Return2 -> Stop("return", ip, h, Num(2), NoError, NoRequest)
      [] stmt = ThrowBoom ->
            Stop("throw", ip, h, Undefined, Err("Error", "boom"), NoRequest)
      [] stmt = ThrowNull ->
            Stop("throw", ip, h, Undefined, Err("null", ""), NoRequest)
      [] stmt = PushCoin ->
            Stop("next", ip, [h EXCEPT ![CoinsOf(i)] = Append(@, Coin("xade", "xd"))],
                 Undefined, NoError, NoRequest)
      [] stmt = ReturnCoinsLength ->
            Stop("return", ip, h, Num(Len(h[CoinsOf(i)])), NoError, NoRequest)
      [] stmt = SetTimePeriod ->
            Stop("next", ip, [h EXCEPT ![TimePeriodsOf(i)]["1d"] = 0],
                 Undefined, NoError, NoRequest)
      [] stmt = ReturnTimePeriod ->
            Stop("return", ip, h, Num(h[TimePeriodsOf(i)]["1d"]), NoError, NoRequest)
      [] stmt = PushAddress ->
            Stop("next", ip, [h EXCEPT ![AddressesOf(i)] = Append(@, "0xabc")],
                 Undefined, NoError, NoRequest)
      [] stmt = ReturnAddressesLength ->
            Stop("return", ip, h, Num(Len(h[AddressesOf(i)])), NoError, NoRequest)
      [] stmt.op = "return id;" ->
            LET r == Resolve(stmt.cap)
            IN  IF r.raise THEN Stop("throw", ip, h, Undefined, r.err, NoRequest)
                ELSE Stop("return", ip, h, r.val, NoError, NoRequest)
      [] stmt = TagJavascript ->
            \* the expression statement `javascript`
            Stop("throw", ip, h, Undefined, Resolve("javascript").err, NoRequest)
      [] stmt.op = "return getTokenName(tok);" ->
            Stop("return", ip, h, Str(getTokenName(h[CoinsOf(i)], stmt.tok)),
                 NoError, NoRequest)

\* The callable of invocation i from statement ip on, up to the next await,
\* return or throw.  Falling off the end returns undefined.
RECURSIVE RunFrom(_, _, _, _, _)
RunFrom(i, prog, ip, h, now) ==
    IF ip > Len(prog) THEN Stop("return", ip, h, Undefined, NoError, NoRequest)
    ELSE IF IsAwait(prog[ip])
    THEN LET c == StartCall(prog[ip].cap, prog[ip].tok, prog[ip].win,
                            h[CoinsOf(i)], h[AddressesOf(i)], now)
         IN  IF c.raise THEN Stop("throw", ip, h, Undefined, c.err, NoRequest)
             ELSE Stop("await", ip, h, Undefined, NoError, c.req)
    ELSE LET e == ExecSync(prog[ip], i, ip, h)
         IN  IF e.how = "next" THEN RunFrom(i, prog, ip + 1, e.h, now) ELSE e

\* The callable of invocation i resumed at the await of statement ip, whose
\* lookup has settled with resp.
Resume(i, prog, ip, h, now, resp) ==
    LET f == FinishCall(prog[ip].cap, resp)
    IN  IF f.raise THEN Stop("throw", ip, h, Undefined, f.err, NoRequest)
        ELSE IF prog[ip].op = "return await"
        THEN Stop("return", ip, h, f.val, NoError, NoRequest)
        ELSE RunFrom(i, prog, ip + 1, h, now)

(***************************************************************************)
(* How a call of executeCode ends.                                         *)
(***************************************************************************)
Outcome(how, value, error) == [how |-> how, value |-> value, error |-> error]
NoOutcome == Outcome("none", Undefined, NoError)

\* return result, line 953
Returned(value) == Outcome("returned", value, NoError)

\* A catch block that hands the failure back as a value.
CatchHandler_ReturnsRecord(error) ==
    Outcome("returned", Obj("FailureRecord", 0), error)

\* The catch block of executeCode, lines 954-957: a new Error is thrown;
\* reading .message of a thrown null raises a TypeError in its place.
CatchHandler(error) ==
    IF error.name = "null"
    THEN Outcome("thrown", Undefined,
                 Err("TypeError", "Cannot read properties of null (reading 'message')"))
    ELSE Outcome("thrown", Undefined,
                 Err("Error", "Code execution failed: " \o error.message))

\* A compile step that goes on to run whatever the compilation gave.
AfterCompile_AlwaysRuns(parsed) == "running"

\* The phase after new AsyncFunction(...): a SyntaxError goes to the catch
\* block, line 954.
AfterCompile(parsed) == IF parsed.ok THEN "running" ELSE "failed"

(***************************************************************************)
(* The code texts the caller may pass, and the responses the lookups may   *)
(* give.                                                                   *)
(***************************************************************************)
Tokens == {"BTC", "Doge"}
Windows == WindowNames \cup {"2d"}

\* One call of a capability with every argument the model considers.
CallsOf(cap) ==
    IF cap \in {"getPriceHistory", "priceHistoryData"}
    THEN {ReturnAwait(cap, t, w) : t \in Tokens, w \in Windows}
    ELSE IF cap = "getHistoricPortfolioData"
    THEN {ReturnAwait(cap, "", w) : w \in Windows}
    ELSE IF cap \in TokenCaps THEN {ReturnAwait(cap, t, "") : t \in Tokens}
    ELSE IF cap = "getWalletPortfolio" THEN {ReturnAwait(cap, "0xabc", "")}
    ELSE IF cap = "getListByCategory" THEN {ReturnAwait(cap, "", "")}
    ELSE {ReturnAwait(cap, "bitcoin", "")}

CallBodies == {<<c>> : c \in UNION {CallsOf(cap) : cap \in AsyncCaps}}

\* Bodies whose code reads or writes objects of the registry, with and
\* without an await between the write and the read.
StateBodies ==
    { <<PushAddress>>, <<ReturnAddressesLength>>,
      <<PushCoin, NL, Await("price", "XD", ""), NL, ReturnCoinsLength>>,
      <<SetTimePeriod, NL, ReturnTimePeriod>>,
      <<PushCoin, NL, ReturnAwait("price", "XD", "")>> }

OtherBodies ==
    { <<Return2>>, <<ThrowBoom>>, <<ThrowNull>>, <<Malformed>>, << >>,
      <<ReturnCoinsLength>>, <<ReturnTimePeriod>>,
      <<ReturnTokenName("BTC")>>, <<ReturnTokenName("Doge")>>,
      <<PushCoin, NL, ReturnTokenName("XD")>> }
        \cup {<<ReturnId(id)>> : id \in Identifiers}

\* A fence marker, with and without the language tag.
Fence == <<Backtick, Backtick, Backtick>>
TaggedFence == <<Backtick, Backtick, Backtick, TagJavascript>>
OpeningFences == {Fence, TaggedFence}

FencedBodies ==
    { <<NL, Return2, NL>>, <<SP, Return2>>, <<Return2>>,
      <<NL, PushCoin, NL, ReturnCoinsLength, NL>> }

Fenced(open, body) == open \o body \o Fence
FencedTexts == {Fenced(o, b) : o \in OpeningFences, b \in FencedBodies}

CodeTexts == CallBodies \cup StateBodies \cup OtherBodies \cup FencedTexts

\* The second invocation runs beside the first; it draws its text from the
\* bodies that touch the registry's objects.
TextsOf(i) == IF i = 1 THEN CodeTexts ELSE StateBodies

\* Values of a market field, in thousandths: zero, a value that rounds to
\* 0.00, a tie (1.125, a binary fraction, so the tie is exact in a double)
\* and a negative value.
FieldValues == {0, 4, 1125, -12344}

ResponsesOf(cap) ==
    { Response("error", FALSE, 0), Response("nodata", FALSE, 0),
      Response("ok", FALSE, 0) }
        \cup IF cap \in UsdCaps \cup PctCaps \cup RawCaps
             THEN {Response("ok", TRUE, v) : v \in FieldValues}
             ELSE {Response("ok", TRUE, 0)}

(***************************************************************************)
(* The analysis functions, lines 118-179.  A JavaScript number is an exact *)
(* fraction n/d in lowest terms, +Infinity, -Infinity or NaN; undefined is *)
(* what reading past the end of an array gives, and it is NaN in           *)
(* arithmetic.  The rounding of doubles and the sign of zero are not       *)
(* modelled: every zero is +0.                                             *)
(***************************************************************************)
MaxLen == 4
MaxMacdLen == 3

Fin(n, d) == [k |-> "fin", n |-> n, d |-> d]
Infinity == [k |-> "inf", n |-> 1, d |-> 0]
NegInfinity == [k |-> "-inf", n |-> -1, d |-> 0]
NotANumber == [k |-> "nan", n |-> 0, d |-> 0]
NoValue == [k |-> "undefined", n |-> 0, d |-> 0]

Abs(n) == IF n < 0 THEN -n ELSE n

RECURSIVE GCD(_, _)
GCD(a, b) == IF b = 0 THEN a ELSE GCD(b, a % b)

\* n/d in lowest terms with a positive denominator, d # 0.
Ratio(n, d) ==
    LET g == GCD(Abs(n), Abs(d))
        s == IF d < 0 THEN -1 ELSE 1
    IN  Fin(s * (n \div g), s * (d \div g))

Integer(n) == Fin(n, 1)

IsNaN(a) == a.k \in {"nan", "undefined"}

\* -1, 0 or 1; a is not NaN.
Sign(a) ==
    IF a.k = "inf" THEN 1
    ELSE IF a.k = "-inf" THEN -1
    ELSE IF a.n > 0 THEN 1 ELSE IF a.n < 0 THEN -1 ELSE 0

Neg(a) ==
    IF IsNaN(a) THEN NotANumber
    ELSE IF a.k = "inf" THEN NegInfinity
    ELSE IF a.k = "-inf" THEN Infinity
    ELSE Fin(-a.n, a.d)

\* a + b
Plus(a, b) ==
    IF IsNaN(a) \/ IsNaN(b) THEN NotANumber
    ELSE IF a.k # "fin" /\ b.k # "fin"
    THEN IF a.k = b.k THEN a ELSE NotANumber
    ELSE IF a.k # "fin" THEN a
    ELSE IF b.k # "fin" THEN b
    ELSE LET g == GCD(a.d, b.d)
         IN  Ratio(a.n * (b.d \div g) + b.n * (a.d \div g), (a.d \div g) * b.d)

\* a - b
Minus(a, b) == Plus(a, Neg(b))

\* a * b
Times(a, b) ==
    IF IsNaN(a) \/ IsNaN(b) THEN NotANumber
    ELSE IF a.k # "fin" \/ b.k # "fin"
    THEN IF Sign(a) * Sign(b) = 0 THEN NotANumber
         ELSE IF Sign(a) * Sign(b) > 0 THEN Infinity ELSE NegInfinity
    ELSE Ratio(a.n * b.n, a.d * b.d)

\* a / b: a finite number over zero is an infinity, 0/0 is NaN.
Over(a, b) ==
    IF IsNaN(a) \/ IsNaN(b) THEN NotANumber
    ELSE IF a.k # "fin" /\ b.k # "fin" THEN NotANumber
    ELSE IF b.k # "fin" THEN Integer(0)
    ELSE IF a.k # "fin"
    THEN IF Sign(a) * (IF Sign(b) < 0 THEN -1 ELSE 1) > 0 THEN Infinity ELSE NegInfinity
    ELSE IF b.n = 0
    THEN IF a.n = 0 THEN NotANumber
         ELSE IF a.n > 0 THEN Infinity ELSE NegInfinity
    ELSE Ratio(a.n * b.d, a.d * b.n)

\* a > b, a < b, a >= b: every comparison with NaN is false.
Gt(a, b) == ~IsNaN(a) /\ ~IsNaN(b) /\ a # b /\ Sign(Minus(a, b)) > 0
Lt(a, b) == ~IsNaN(a) /\ ~IsNaN(b) /\ a # b /\ Sign(Minus(a, b)) < 0
Ge(a, b) == ~IsNaN(a) /\ ~IsNaN(b) /\ (a = b \/ Sign(Minus(a, b)) > 0)

\* array[i], with JavaScript's indices from 0.
At(array, i) == IF i >= 0 /\ i < Len(array) THEN array[i + 1] ELSE NoValue

\* The loop of calculateEMA, lines 149-151, from index i on.
RECURSIVE EMALoop(_, _, _, _)
EMALoop(prices, i, ema, multiplier) ==
    IF i >= Len(prices) THEN ema
    ELSE EMALoop(prices, i + 1,
                 Plus(Times(Minus(At(prices, i), ema), multiplier), ema),
                 multiplier)

\* An average that starts from zero instead of from the first price.
calculateEMA_FromZero(prices, period) ==
    EMALoop(prices, 0, Integer(0), Over(Integer(2), Integer(period + 1)))

\* calculateEMA, lines 146-153.
calculateEMA(prices, period) ==
    EMALoop(prices, 1, At(prices, 0), Over(Integer(2), Integer(period + 1)))

\* calculateMACD, lines 137-144.
calculateMACD(prices) ==
    LET ema12 == calculateEMA(prices, 12)
        ema26 == calculateEMA(prices, 26)
        macdLine == Minus(ema12, ema26)
        signalLine == calculateEMA(<<macdLine>>, 9)
        histogram == Minus(macdLine, signalLine)
    IN  [macdLine |-> macdLine, signalLine |-> signalLine, histogram |-> histogram]

\* The loop of calculateRSI, lines 126-130, from index i on: the gains and
\* the losses it ends with.
RECURSIVE RSILoop(_, _, _, _)
RSILoop(prices, i, gains, losses) ==
    IF i >= Len(prices) THEN [gains |-> gains, losses |-> losses]
    ELSE LET difference == Minus(At(prices, i), At(prices, i - 1))
         IN  IF Ge(difference, Integer(0))
             THEN RSILoop(prices, i + 1, Plus(gains, difference), losses)
             ELSE RSILoop(prices, i + 1, gains, Minus(losses, difference))

\* An index that looks at every transition of the series, not at the last
\* period ones.
calculateRSI_WholeSeries(prices, period) ==
    LET sums == RSILoop(prices, 1, Integer(0), Integer(0))
        avgGain == Over(sums.gains, Integer(period))
        avgLoss == Over(sums.losses, Integer(period))
        rs == Over(avgGain, avgLoss)
    IN  Minus(Integer(100), Over(Integer(100), Plus(Integer(1), rs)))

\* calculateRSI, lines 123-135.
calculateRSI(prices, period) ==
    LET sums == RSILoop(prices, Len(prices) - period, Integer(0), Integer(0))
        avgGain == Over(sums.gains, Integer(period))
        avgLoss == Over(sums.losses, Integer(period))
        rs == Over(avgGain, avgLoss)
    IN  Minus(Integer(100), Over(Integer(100), Plus(Integer(1), rs)))

\* A string built from pieces is the sequence of its pieces; the empty
\* string is the empty sequence.  Array.prototype.join:
RECURSIVE Join(_, _)
Join(signals, separator) ==
    IF Len(signals) = 0 THEN << >>
    ELSE IF Len(signals) = 1 THEN signals
    ELSE <<Head(signals), separator>> \o Join(Tail(signals), separator)

\* A classifier whose RSI thresholds are inclusive.
determineTrend_Inclusive(sma, rsi, macd) ==
    LET s1 == IF Ge(rsi, Integer(70)) THEN <<"Overbought">>
              ELSE IF Ge(Integer(30), rsi) THEN <<"Oversold">> ELSE << >>
        s2 == IF Gt(macd.macdLine, macd.signalLine)
              THEN Append(s1, "Bullish MACD Crossover")
              ELSE IF Lt(macd.macdLine, macd.signalLine)
              THEN Append(s1, "Bearish MACD Crossover") ELSE s1
    IN  IF Join(s2, ", ") # << >> THEN Join(s2, ", ") ELSE <<"Neutral">>

\* determineTrend, lines 155-163.
determineTrend(sma, rsi, macd) ==
    LET s1 == IF Gt(rsi, Integer(70)) THEN <<"Overbought">>
              ELSE IF Lt(rsi, Integer(30)) THEN <<"Oversold">> ELSE << >>
        s2 == IF Gt(macd.macdLine, macd.signalLine)
              THEN Append(s1, "Bullish MACD Crossover")
              ELSE IF Lt(macd.macdLine, macd.signalLine)
              THEN Append(s1, "Bearish MACD Crossover") ELSE s1
    IN  IF Join(s2, ", ") # << >> THEN Join(s2, ", ") ELSE <<"Neutral">>

\* The percent change of calculateTrend, line 175.
PercentChange(values) ==
    LET firstValue == At(values, 0)
        lastValue == At(values, Len(values) - 1)
    IN  Times(Over(Minus(lastValue, firstValue), firstValue), Integer(100))

\* A classifier whose 5% thresholds are inclusive.
calculateTrend_Inclusive(values) ==
    LET change == PercentChange(values)
    IN  IF Ge(change, Integer(5)) THEN "Upward"
        ELSE IF Ge(Integer(-5), change) THEN "Downward"
        ELSE "Sideways"

\* calculateTrend, lines 172-179.
calculateTrend(values) ==
    LET change == PercentChange(values)
    IN  IF Gt(change, Integer(5)) THEN "Upward"
        ELSE IF Lt(change, Integer(-5)) THEN "Downward"
        ELSE "Sideways"

\* The inputs the analysis functions are tried on.
RECURSIVE SeqsUpTo(_, _)
SeqsUpTo(S, n) ==
    IF n = 0 THEN {<< >>}
    ELSE LET shorter == SeqsUpTo(S, n - 1)
         IN  shorter \cup {Append(s, x) : s \in shorter, x \in S}

PriceValues == {Integer(1), Integer(2), Integer(3), Integer(4)}
PriceSeries == SeqsUpTo(PriceValues, MaxLen)
\* calculateMACD is tried on shorter series: the fractions of a 26-sample
\* average grow by a factor of 27 with every sample.
MacdSeries == SeqsUpTo(PriceValues, MaxMacdLen)
Periods == 1..MaxLen
EMAPeriods == {1, 9, 12, 26}
\* 100 -> 105 is a change of exactly 5%, 100 -> 95 of exactly -5%.
TrendValues == {Integer(94), Integer(95), Integer(100), Integer(101),
                Integer(105), Integer(106)}
TrendSeries == SeqsUpTo(TrendValues, MaxLen)
RsiValues == {Integer(29), Integer(30), Integer(31), Integer(50), Integer(69),
              Integer(70), Integer(71), Integer(80), NotANumber}
LineValues == {Integer(-1), Integer(0), Integer(1), NotANumber}
SmaValues == {Integer(1), Integer(2)}
MacdOf(macdLine, signalLine) ==
    [macdLine |-> macdLine, signalLine |-> signalLine,
     histogram |-> Minus(macdLine, signalLine)]

\* The last call of an analysis function: its arguments and what it returned
\* (a number, a string or a MACD record).
KernelCall(op, prices, period, sma, rsi, macd, number, text) ==
    [op |-> op, prices |-> prices, period |-> period, sma |-> sma, rsi |-> rsi,
     macd |-> macd, number |-> number, text |-> text]
NoKernelCall ==
    KernelCall("", << >>, 0, NoValue, NoValue, MacdOf(NoValue, NoValue), NoValue, << >>)

(***************************************************************************)
(* State.                                                                  *)
(***************************************************************************)
VARIABLES
    phase,      \* per invocation: idle, normalizing, compiling, running,
                \* succeeded, failed
    code,       \* the code text passed to executeCode
    cleanCode,  \* cleanCode, line 635
    fn,         \* the compiled callable: its statements
    ip,         \* the statement the callable is at
    pending,    \* is a lookup of the callable in flight?
    issued,     \* the lookups issued so far: capability, arguments, time, request
    received,   \* the responses received so far
    failure,    \* the error that reached the catch block of executeCode
    outcome,    \* how the call ended: a returned value or a thrown error
    compiles,   \* how many times new AsyncFunction ran
    invokes,    \* how many times the callable was invoked
    heap,       \* the objects: portfolioAddresses, each context's coins and
                \* TIME_PERIODS
    clock,      \* Date.now()
    kernel      \* the last call of an analysis function (lines 118-179)

vars == <<phase, code, cleanCode, fn, ip, pending, issued, received, failure,
          outcome, compiles, invokes, heap, clock, kernel>>

Init ==
    /\ phase = [i \in Invocations |-> "idle"]
    /\ code = [i \in Invocations |-> << >>]
    /\ cleanCode = [i \in Invocations |-> << >>]
    /\ fn = [i \in Invocations |-> << >>]
    /\ ip = [i \in Invocations |-> 0]
    /\ pending = [i \in Invocations |-> FALSE]
    /\ issued = [i \in Invocations |-> << >>]
    /\ received = [i \in Invocations |-> << >>]
    /\ failure = [i \in Invocations |-> NoError]
    /\ outcome = [i \in Invocations |-> NoOutcome]
    /\ compiles = [i \in Invocations |-> 0]
    /\ invokes = [i \in Invocations |-> 0]
    /\ heap = ModuleHeap
    /\ clock = StartTime
    /\ kernel = NoKernelCall

\* The record of a lookup issued by statement stmt at time now.
Lookup(stmt, now, req) ==
    [cap |-> stmt.cap, tok |-> stmt.tok, win |-> stmt.win, at |-> now, req |-> req]

\* An engine that does not wait for the callable (`fn(...)` without await):
\* the call returns as soon as the callable suspends.
Continue_NoAwait(i, r) ==
    /\ heap' = r.h
    /\ ip' = [ip EXCEPT ![i] = r.ip]
    /\ pending' = [pending EXCEPT ![i] = (r.how = "await")]
    /\ issued' = [issued EXCEPT ![i] =
                    IF r.how = "await"
                    THEN Append(@, Lookup(fn[i][r.ip], clock, r.req)) ELSE @]
    /\ IF r.how = "throw"
       THEN /\ phase' = [phase EXCEPT ![i] = "failed"]
            /\ failure' = [failure EXCEPT ![i] = r.err]
            /\ outcome' = [outcome EXCEPT ![i] = CatchHandler(r.err)]
       ELSE /\ phase' = [phase EXCEPT ![i] = "succeeded"]
            /\ outcome' = [outcome EXCEPT ![i] = Returned(r.val)]
            /\ UNCHANGED failure

\* The state after a synchronous stretch of invocation i's callable that
\* stopped as r: an await leaves the lookup in flight (line 952 stays
\* suspended), a return is line 953, a throw is re-thrown by the callable's
\* own catch (lines 944-947) into the catch block of executeCode.
Continue(i, r) ==
    /\ heap' = r.h
    /\ ip' = [ip EXCEPT ![i] = r.ip]
    /\ IF r.how = "await"
       THEN /\ pending' = [pending EXCEPT ![i] = TRUE]
            /\ issued' = [issued EXCEPT ![i] = Append(@, Lookup(fn[i][r.ip], clock, r.req))]
            /\ UNCHANGED <<phase, failure, outcome>>
       ELSE IF r.how = "return"
       THEN /\ pending' = [pending EXCEPT ![i] = FALSE]
            /\ phase' = [phase EXCEPT ![i] = "succeeded"]
            /\ outcome' = [outcome EXCEPT ![i] = Returned(r.val)]
            /\ UNCHANGED <<issued, failure>>
       ELSE /\ pending' = [pending EXCEPT ![i] = FALSE]
            /\ phase' = [phase EXCEPT ![i] = "failed"]
            /\ failure' = [failure EXCEPT ![i] = r.err]
            /\ outcome' = [outcome EXCEPT ![i] = CatchHandler(r.err)]
            /\ UNCHANGED issued

\* The caller calls executeCode(text), line 633.
Call(i) ==
    /\ phase[i] = "idle"
    /\ \E text \in TextsOf(i) : code' = [code EXCEPT ![i] = text]
    /\ phase' = [phase EXCEPT ![i] = "normalizing"]
    /\ UNCHANGED <<cleanCode, fn, ip, pending, issued, received, failure, outcome,
                   compiles, invokes, heap, clock, kernel>>

\* Lines 635-638.
Normalize(i) ==
    /\ phase[i] = "normalizing"
    /\ cleanCode' = [cleanCode EXCEPT ![i] = CleanCode(code[i])]
    /\ phase' = [phase EXCEPT ![i] = "compiling"]
    /\ UNCHANGED <<code, fn, ip, pending, issued, received, failure, outcome,
                   compiles, invokes, heap, clock, kernel>>

\* Lines 641-949: the context is built, then the callable is compiled.
Compile(i) ==
    /\ phase[i] = "compiling"
    /\ LET parsed == AsyncFunction(cleanCode[i])
       IN  /\ heap' = NewContext(i, heap)
           /\ compiles' = [compiles EXCEPT ![i] = @ + 1]
           /\ fn' = [fn EXCEPT ![i] = parsed.prog]
           /\ phase' = [phase EXCEPT ![i] = AfterCompile(parsed)]
           /\ IF parsed.ok
              THEN UNCHANGED <<failure, outcome>>
              ELSE /\ failure' = [failure EXCEPT ![i] = parsed.err]
                   /\ outcome' = [outcome EXCEPT ![i] = CatchHandler(parsed.err)]
    /\ UNCHANGED <<code, cleanCode, ip, pending, issued, received, invokes, clock,
                   kernel>>

\* Line 952: fn(...Object.values(context)) runs up to its first await.
Invoke(i) ==
    /\ phase[i] = "running"
    /\ invokes[i] = 0
    /\ invokes' = [invokes EXCEPT ![i] = 1]
    /\ Continue(i, RunFrom(i, fn[i], 1, heap, clock))
    /\ UNCHANGED <<code, cleanCode, fn, received, compiles, clock, kernel>>

\* The lookup the callable awaits settles and the callable resumes.
Settle(i) ==
    /\ phase[i] = "running"
    /\ pending[i]
    /\ \E resp \in ResponsesOf(fn[i][ip[i]].cap) :
        /\ received' = [received EXCEPT ![i] = Append(@, resp)]
        /\ Continue(i, Resume(i, fn[i], ip[i], heap, clock, resp))
    /\ UNCHANGED <<code, cleanCode, fn, compiles, invokes, clock, kernel>>

\* Time passes.
Tick ==
    /\ clock < StartTime + MaxTicks
    /\ clock' = clock + 1
    /\ UNCHANGED <<phase, code, cleanCode, fn, ip, pending, issued, received,
                   failure, outcome, compiles, invokes, heap, kernel>>

\* JavaScript runs executeCode from its call to the callable's first await
\* without interruption; the model splits that stretch into Call, Normalize,
\* Compile and Invoke, which allows every interleaving the host allows and
\* more.  Between awaits the callable runs as one step (RunFrom).
Next ==
    \/ \E i \in Invocations : Call(i)
    \/ \E i \in Invocations : Normalize(i)
    \/ \E i \in Invocations : Compile(i)
    \/ \E i \in Invocations : Invoke(i)
    \/ \E i \in Invocations : Settle(i)
    \/ Tick

Spec == Init /\ [][Next]_vars

\* One call of executeCode on its own.
SoloNext ==
    \/ Call(1)
    \/ Normalize(1)
    \/ Compile(1)
    \/ Invoke(1)
    \/ Settle(1)
    \/ Tick

\* The host runs every synchronous stretch that is ready to run, and every
\* lookup in flight settles in the end.
SoloLiveSpec ==
    /\ Init /\ [][SoloNext]_vars
    /\ WF_vars(Normalize(1)) /\ WF_vars(Compile(1))
    /\ WF_vars(Invoke(1)) /\ WF_vars(Settle(1))

\* The analysis functions are pure: a call leaves the engine's state alone.
EngineUnchanged ==
    UNCHANGED <<phase, code, cleanCode, fn, ip, pending, issued, received,
                failure, outcome, compiles, invokes, heap, clock>>

\* determineTrend(sma, rsi, macd), line 155.
DetermineTrend ==
    /\ kernel = NoKernelCall
    /\ \E sma \in SmaValues, rsi \in RsiValues, macdLine \in LineValues,
          signalLine \in LineValues :
         LET macd == MacdOf(macdLine, signalLine)
         IN  kernel' = KernelCall("determineTrend", << >>, 0, sma, rsi, macd,
                                  NoValue, determineTrend(sma, rsi, macd))
    /\ EngineUnchanged

\* calculateTrend(values), line 172.
CalculateTrend ==
    /\ kernel = NoKernelCall
    /\ \E values \in TrendSeries :
         kernel' = KernelCall("calculateTrend", values, 0, NoValue, NoValue,
                              MacdOf(NoValue, NoValue), NoValue,
                              <<calculateTrend(values)>>)
    /\ EngineUnchanged

\* calculateRSI(prices, period), line 123.
CalculateRSI ==
    /\ kernel = NoKernelCall
    /\ \E prices \in PriceSeries, period \in Periods :
         kernel' = KernelCall("calculateRSI", prices, period, NoValue, NoValue,
                              MacdOf(NoValue, NoValue),
                              calculateRSI(prices, period), << >>)
    /\ EngineUnchanged

\* calculateEMA(prices, period), line 146.
CalculateEMA ==
    /\ kernel = NoKernelCall
    /\ \E prices \in PriceSeries, period \in EMAPeriods :
         kernel' = KernelCall("calculateEMA", prices, period, NoValue, NoValue,
                              MacdOf(NoValue, NoValue),
                              calculateEMA(prices, period), << >>)
    /\ EngineUnchanged

\* calculateMACD(prices), line 137.
CalculateMACD ==
    /\ kernel = NoKernelCall
    /\ \E prices \in MacdSeries :
         kernel' = KernelCall("calculateMACD", prices, 0, NoValue, NoValue,
                              calculateMACD(prices), NoValue, << >>)
    /\ EngineUnchanged

\* determineTrend(sma, rsi, calculateMACD(prices)).
DetermineTrendOfMACD ==
    /\ kernel = NoKernelCall
    /\ \E prices \in MacdSeries, sma \in SmaValues, rsi \in RsiValues :
         LET macd == calculateMACD(prices)
         IN  kernel' = KernelCall("determineTrendOfMACD", prices, 0, sma, rsi, macd,
                                  NoValue, determineTrend(sma, rsi, macd))
    /\ EngineUnchanged

KernelNext ==
    \/ DetermineTrend
    \/ CalculateTrend
    \/ CalculateRSI
    \/ CalculateEMA
    \/ CalculateMACD
    \/ DetermineTrendOfMACD

KernelSpec == Init /\ [][KernelNext]_vars

(***************************************************************************)
(* Properties.                                                             *)
(***************************************************************************)
Ended(i) == phase[i] \in {"succeeded", "failed"}

\* The program of invocation i is the single statement `return await cap(tok, win);`
SingleCall(i, cap, tok, win) == fn[i] = <<ReturnAwait(cap, tok, win)>>

C2_UnregisteredNameFails ==
    \A i \in Invocations : \A id \in Identifiers \ RegistryNames :
        (fn[i] = <<ReturnId(id)>> /\ invokes[i] = 1) => phase[i] = "failed"

\* C3: of a text made of an opening fence (tagged or not), a body and a
\* closing fence, the text compiled is the trimmed body, and a fenced
\* `return 1+1;` yields 2.
C3_FenceStripped ==
    \A i \in Invocations : \A o \in OpeningFences : \A b \in FencedBodies :
        code[i] = Fenced(o, b) =>
            /\ phase[i] \notin {"idle", "normalizing"} => cleanCode[i] = Trim(b)
            /\ (Ended(i) /\ Trim(b) = <<Return2>>) => outcome[i] = Returned(Num(2))

\* C4: an execution that mutates nothing itself reads every object of the
\* registry as it is freshly built, whatever other executions did.
C4_NoSharedRegistryObject ==
    \A i \in Invocations :
        phase[i] = "succeeded" =>
            /\ fn[i] = <<ReturnCoinsLength>> => outcome[i].value = Num(Len(DefaultCoins))
            /\ fn[i] = <<ReturnTimePeriod>> => outcome[i].value = Num(TIME_PERIODS["1d"])
            /\ fn[i] = <<ReturnAddressesLength>> => outcome[i].value = Num(1)

\* The statements that touch state shared between executions.
TouchesShared(text) ==
    \E k \in 1..Len(text) : text[k] \in {PushAddress, ReturnAddressesLength}

\* The outcome of the code text run alone: compiled, its callable run on a
\* heap of its own, each await answered by the next of resps.
RECURSIVE AloneFrom(_, _, _, _, _)
AloneFrom(i, prog, r, resps, k) ==
    IF r.how = "await"
    THEN IF k > Len(resps) THEN NoOutcome
         ELSE AloneFrom(i, prog, Resume(i, prog, r.ip, r.h, StartTime, resps[k]),
                        resps, k + 1)
    ELSE IF r.how = "return" THEN Returned(r.val)
    ELSE CatchHandler(r.err)

RunAlone(i, text, resps) ==
    LET parsed == AsyncFunction(CleanCode(text))
    IN  IF ~parsed.ok THEN CatchHandler(parsed.err)
        ELSE AloneFrom(i, parsed.prog,
                       RunFrom(i, parsed.prog, 1, NewContext(i, ModuleHeap), StartTime),
                       resps, 1)

\* C5: when no invocation's code touches shared state, every invocation
\* ends, under every interleaving and start order, with the outcome its code
\* has when run alone with the same responses.
C5_ResultAsWhenAlone ==
    (\A j \in Invocations : ~TouchesShared(code[j])) =>
        \A i \in Invocations :
            Ended(i) => outcome[i] = RunAlone(i, code[i], received[i])

C5_Witness ==
    \A i \in Invocations :
        /\ code[i] = <<PushCoin, NL, Await("price", "XD", ""), NL, ReturnCoinsLength>>
        /\ phase[i] = "succeeded"
        /\ Len(received[i]) = 1
        /\ outcome[i].value = Num(Len(DefaultCoins) + 1)

PhaseEdges ==
    { <<"idle", "normalizing">>, <<"normalizing", "compiling">>,
      <<"compiling", "running">>, <<"compiling", "failed">>,
      <<"running", "succeeded">>, <<"running", "failed">> }

\* C6: every invocation moves Idle -> Normalizing -> Compiling -> Running ->
\* {Succeeded, Failed}; the callable is compiled once and invoked at most
\* once; a compile failure never runs; an ended invocation compiles and
\* invokes nothing more.
C6_PhaseOrder ==
    [][\A i \in Invocations :
          /\ phase'[i] # phase[i] => <<phase[i], phase'[i]>> \in PhaseEdges
          /\ compiles'[i] <= 1 /\ invokes'[i] <= 1
          /\ phase'[i] \in {"running", "succeeded", "failed"} => compiles'[i] = 1
          /\ invokes'[i] = 1 => phase'[i] \in {"running", "succeeded", "failed"}
          /\ failure'[i].name = "SyntaxError" => invokes'[i] = 0 /\ phase'[i] = "failed"
          /\ Ended(i) => /\ phase'[i] = phase[i]
                         /\ compiles'[i] = compiles[i]
                         /\ invokes'[i] = invokes[i]
                         /\ outcome'[i] = outcome[i]]_vars

C6_Witness ==
    /\ \E i \in Invocations :
        phase[i] = "failed" /\ compiles[i] = 1 /\ invokes[i] = 0
    /\ \E i \in Invocations :
        phase[i] = "failed" /\ compiles[i] = 1 /\ invokes[i] = 1

\* C7: a lookup that fails ends the execution of code that does not handle
\* it as Failed.
C7_FailedLookupRaises ==
    \A i \in Invocations :
        (received[i] # << >> /\ received[i][Len(received[i])].status = "error")
            => phase[i] = "failed"

\* C8: the identifier a token-taking capability sends to its lookup is the
\* resolved name of its token argument.
C8_LookupUsesResolvedToken ==
    \A i \in Invocations : \A k \in 1..Len(issued[i]) :
        issued[i][k].cap \in TokenCaps =>
            issued[i][k].req.target \in
                { Str(getTokenName(heap[CoinsOf(i)], issued[i][k].tok)),
                  Str(ModuleGetTokenName(issued[i][k].tok)) }

\* C9: a history capability called with a recognized window W issues its
\* lookup for its target with to = now and from = now - duration(W).
C9_HistoryWindow ==
    \A i \in Invocations : \A cap \in HistoryCaps :
      \A tok \in Tokens \cup {""} : \A w \in WindowNames :
        (SingleCall(i, cap, tok, w) /\ invokes[i] = 1) =>
            /\ Len(issued[i]) = 1
            /\ issued[i][1].req.to = Num(issued[i][1].at)
            /\ issued[i][1].req.from = Num(issued[i][1].at - TIME_PERIODS[w])
            /\ issued[i][1].req.target.t =
                  (IF cap = "getHistoricPortfolioData" THEN "object" ELSE "string")

\* C10: a window-taking capability called with an unrecognized window raises
\* and issues no lookup with an undefined or not-a-number time bound.
C10_UnknownWindowRaises ==
    \A i \in Invocations : \A cap \in HistoryCaps :
      \A tok \in Tokens \cup {""} : \A w \in Windows \ WindowNames :
        (SingleCall(i, cap, tok, w) /\ invokes[i] = 1) =>
            /\ \A k \in 1..Len(issued[i]) :
                  /\ issued[i][k].req.from \notin {NaN, Undefined}
                  /\ issued[i][k].req.to \notin {NaN, Undefined}
            /\ Ended(i) => phase[i] = "failed"

\* The last response invocation i received.
LastResponse(i) == received[i][Len(received[i])]

\* C11: a formatting capability returns exactly "N/A" when the field it reads
\* is absent or zero, and otherwise the field rounded to 2 decimals (the
\* nearest hundredth) with "$" before it for a currency field and "%" after
\* it for a percentage field.
C11_FormattingContract ==
    \A i \in Invocations : \A cap \in UsdCaps \cup PctCaps : \A tok \in Tokens :
        (SingleCall(i, cap, tok, "") /\ Len(received[i]) = 1
            /\ LastResponse(i).status # "error") =>
            LET resp == LastResponse(i)
                absent == resp.status = "nodata" \/ ~resp.has
                v == outcome[i].value
            IN  /\ phase[i] = "succeeded"
                /\ v.t = "string"
                /\ (absent \/ resp.val = 0) => v = Str("N/A")
                /\ ~(absent \/ resp.val = 0) =>
                      /\ v.s = (IF cap \in UsdCaps THEN "$" ELSE "%")
                      /\ 10 * v.n - resp.val \in (-5)..5

C11_Witness ==
    \E i \in Invocations :
        /\ SingleCall(i, "price", "BTC", "")
        /\ received[i] = <<Response("ok", TRUE, 1125)>>
        /\ outcome[i] = Returned(Usd(113))

\* C12: an execution whose callable awaits a lookup that has not settled is
\* neither Succeeded nor Failed, and the only step that ends it is the
\* settling of that lookup: no timeout, no cancellation.  When every lookup
\* settles, every call that was made reaches Succeeded or Failed.
C12_NoTimeoutOfItsOwn ==
    /\ [](\A i \in Invocations : pending[i] => phase[i] = "running")
    /\ [][\A i \in Invocations :
            (pending[i] /\ phase'[i] \in {"succeeded", "failed"})
                => Len(received'[i]) = Len(received[i]) + 1]_vars
    /\ \A i \in Invocations : (phase[i] = "normalizing") ~> Ended(i)

\* A lookup is still in flight after time has passed.
C12_Witness ==
    \E i \in Invocations :
        /\ pending[i]
        /\ phase[i] = "running"
        /\ Len(issued[i]) = 1
        /\ clock > issued[i][1].at

\* a === b on numbers: NaN equals nothing.
StrictEq(a, b) == ~IsNaN(a) /\ ~IsNaN(b) /\ a = b

Reports(text, label) == \E j \in 1..Len(text) : text[j] = label

\* The labels of determineTrend's result are as the four rules say, joined
\* by ", " with the RSI label first, whatever sma is.
LabelsAsRuled ==
    LET rsi == kernel.rsi
        macdLine == kernel.macd.macdLine
        signalLine == kernel.macd.signalLine
        text == kernel.text
    IN  /\ Reports(text, "Overbought") <=> Gt(rsi, Integer(70))
        /\ Reports(text, "Oversold") <=> Lt(rsi, Integer(30))
        /\ Reports(text, "Bullish MACD Crossover") <=> Gt(macdLine, signalLine)
        /\ Reports(text, "Bearish MACD Crossover") <=> Lt(macdLine, signalLine)
        /\ Len(text) \in {1, 3}
        /\ Len(text) = 3 =>
             /\ text[1] \in {"Overbought", "Oversold"}
             /\ text[2] = ", "
             /\ text[3] \in {"Bullish MACD Crossover", "Bearish MACD Crossover"}
        /\ \A sma \in SmaValues : determineTrend(sma, rsi, kernel.macd) = text

\* C13, as stated: determineTrend returns the fired labels joined by ", ",
\* RSI label first ("Overbought" iff rsi > 70, "Oversold" iff rsi < 30,
\* "Bullish MACD Crossover" iff macdLine > signalLine, "Bearish MACD
\* Crossover" iff macdLine < signalLine), the result does not depend on sma,
\* and it is "Neutral" exactly when 30 <= rsi <= 70 and macdLine = signalLine.
C13_NeutralExactlyInBand ==
    kernel.op = "determineTrend" =>
        /\ LabelsAsRuled
        /\ (kernel.text = <<"Neutral">>) <=>
             /\ Ge(kernel.rsi, Integer(30)) /\ Ge(Integer(70), kernel.rsi)
             /\ StrictEq(kernel.macd.macdLine, kernel.macd.signalLine)

\* C13, amended: the labels are as stated and the result does not depend on
\* sma, but it is "Neutral" exactly when no rule fires, that is when rsi is
\* neither above 70 nor below 30 and macdLine is neither above nor below
\* signalLine; this is 30 <= rsi <= 70 and macdLine = signalLine when none of
\* the three is NaN, and it is also the case of a NaN rsi or a NaN line.
C13_NeutralWhenNoRuleFires ==
    kernel.op = "determineTrend" =>
        /\ LabelsAsRuled
        /\ (kernel.text = <<"Neutral">>) <=>
             /\ ~Gt(kernel.rsi, Integer(70)) /\ ~Lt(kernel.rsi, Integer(30))
             /\ ~Gt(kernel.macd.macdLine, kernel.macd.signalLine)
             /\ ~Lt(kernel.macd.macdLine, kernel.macd.signalLine)
        /\ (~IsNaN(kernel.rsi) /\ ~IsNaN(kernel.macd.macdLine)
              /\ ~IsNaN(kernel.macd.signalLine)) =>
             ((kernel.text = <<"Neutral">>) <=>
                /\ Ge(kernel.rsi, Integer(30)) /\ Ge(Integer(70), kernel.rsi)
                /\ StrictEq(kernel.macd.macdLine, kernel.macd.signalLine))

\* A NaN rsi (what calculateRSI returns for a flat window) with a bullish
\* crossover reports the crossover alone; with equal lines, "Neutral".
C13_Witness ==
    /\ kernel.op = "determineTrend"
    /\ kernel.rsi = NotANumber
    /\ kernel.macd.macdLine = Integer(0) /\ kernel.macd.signalLine = Integer(0)
    /\ kernel.text = <<"Neutral">>

\* C14: for a value sequence with a positive first value, calculateTrend
\* returns "Upward" exactly when the percent change from the first to the
\* last value is above 5, "Downward" exactly when it is below -5, and
\* "Sideways" otherwise (so also at exactly +5% and -5%); the values between
\* the first and the last do not matter.
C14_TrendClassification ==
    (kernel.op = "calculateTrend" /\ Len(kernel.prices) >= 1
        /\ Gt(kernel.prices[1], Integer(0))) =>
      LET first == kernel.prices[1]
          last == kernel.prices[Len(kernel.prices)]
          \* (last - first) / first * 100 against 5 and -5, first > 0,
          \* on the numerators of a common denominator
          rise == (last.n * first.d - first.n * last.d) * 100
          five == 5 * first.n * last.d
      IN  /\ (kernel.text = <<"Upward">>) <=> (rise > five)
          /\ (kernel.text = <<"Downward">>) <=> (rise < -five)
          /\ (kernel.text = <<"Sideways">>) <=> (rise <= five /\ rise >= -five)
          /\ kernel.text = <<calculateTrend(<<first, last>>)>>

\* 100 -> 106 -> 105 is a change of exactly 5%: "Sideways".
C14_Witness ==
    /\ kernel.op = "calculateTrend"
    /\ kernel.prices = <<Integer(100), Integer(106), Integer(105)>>
    /\ kernel.text = <<"Sideways">>

\* C15: for a period >= 1 and a series of at least period + 1 samples whose
\* last period transitions all rise strictly, calculateRSI returns exactly
\* 100.
C15_RisingWindowSaturates ==
    (/\ kernel.op = "calculateRSI"
     /\ kernel.period >= 1
     /\ Len(kernel.prices) >= kernel.period + 1
     /\ \A j \in (Len(kernel.prices) - kernel.period + 1)..Len(kernel.prices) :
          Gt(kernel.prices[j], kernel.prices[j - 1]))
      => kernel.number = Integer(100)

\* A fall before the window, then two rises: 100.
C15_Witness ==
    /\ kernel.op = "calculateRSI"
    /\ kernel.prices = <<Integer(4), Integer(1), Integer(3), Integer(4)>>
    /\ kernel.period = 2
    /\ kernel.number = Integer(100)

\* C16: calculateEMA of a one-element sequence is that element, whatever the
\* period; so calculateMACD of a non-empty series has signalLine = macdLine
\* and histogram = 0, and determineTrend fed with a result of calculateMACD
\* reports no MACD crossover.
C16_SignalLineIsMacdLine ==
    /\ (kernel.op = "calculateEMA" /\ Len(kernel.prices) = 1)
          => kernel.number = kernel.prices[1]
    /\ (kernel.op = "calculateMACD" /\ Len(kernel.prices) >= 1)
          => /\ StrictEq(kernel.macd.signalLine, kernel.macd.macdLine)
             /\ kernel.macd.histogram = Integer(0)
    /\ kernel.op = "determineTrendOfMACD"
          => /\ ~Reports(kernel.text, "Bullish MACD Crossover")
             /\ ~Reports(kernel.text, "Bearish MACD Crossover")

\* A rising series, whose macdLine is not zero: 15/13 - 29/27 = 28/351.
C16_Witness ==
    /\ kernel.op = "calculateMACD"
    /\ kernel.prices = <<Integer(1), Integer(2)>>
    /\ kernel.macd.macdLine = Fin(28, 351)
    /\ kernel.macd.signalLine = Fin(28, 351)
    /\ kernel.macd.histogram = Integer(0)

====
